---- MODULE Spec2Model ----
(***************************************************************************)
(* A model of xcp_d's BIDS derivative resolution (xcp_d.utils.bids), the   *)
(* transform chaining of xcp_d.utils.utils, the command line checks and    *)
(* the main function of xcp_d.cli.run and the connectivity workflow of     *)
(* xcp_abcd.workflow.connectivity.                                         *)
(*                                                                         *)
(* Every function is called from the idle state "start" with inputs drawn  *)
(* from small sets; the functions that the pipeline chains (collect_data,  *)
(* select_registrationfile, extract_t1w_seg) run one after the other on    *)
(* the same subj_data.                                                     *)
(*                                                                         *)
(* Python's None is the empty tuple <<>>, a value v that may be None is    *)
(* <<v>>.  A file name is the record of its BIDS entities ("" for an       *)
(* entity the name does not have).                                         *)
(***************************************************************************)
EXTENDS Integers, Sequences, FiniteSets, TLC

VARIABLES
    pc,          \* position of the caller: "start", then the name of the last call
    layout,      \* the files of the dataset indexed by BIDSLayout
    args,        \* the arguments of the last call
    subj_data,   \* collect_data's result: dtype -> sorted list of files
    err,         \* the exception a call raised: [type, msg], or None
    warned,      \* the warnings a call emitted (warnings.warn / build_log.warning)
    errors,      \* the messages a call logged with build_log.error
    ret,         \* the value the last call returned, or None
    opts,        \* the options object _validate_parameters works on
    environ,     \* os.environ["FS_LICENSE"], or None
    fs,          \* the dataset_description.json of each directory, or None
    calls,       \* the calls main made or tried to make, in order
    locals       \* the local variables of main (build: what its build
                 \* subprocess left), or None before it runs

vars == <<pc, layout, args, subj_data, err, warned, errors, ret, opts, environ,
          fs, calls, locals>>

None == <<>>
Some(v) == <<v>>

NoErr == [type |-> "", msg |-> ""]

----------------------------------------------------------------------------
(* Names of coordinate spaces and their order as Python strings.           *)

NLin6 == "MNI152NLin6Asym"
NLin2009c == "MNI152NLin2009cAsym"
Infant == "MNIInfant"

\* Rank of an entity value in Python's string order (ASCII): "" sorts first.
StrRank(s) ==
    CASE s = "" -> 0
      [] s = "01" -> 1
      [] s = "02" -> 2
      [] s = "1" -> 3
      [] s = "2" -> 4
      [] s = "32k" -> 5
      [] s = "91k" -> 6
      [] s = "MNI152NLin2009cAsym" -> 7
      [] s = "MNI152NLin6Asym" -> 8
      [] s = "MNIInfant" -> 9
      [] s = "T1w" -> 10
      [] s = "aparcaseg" -> 11
      [] s = "aseg" -> 12
      [] s = "bold" -> 13
      [] s = "dseg" -> 14
      [] s = "fail" -> 15
      [] s = "fsLR" -> 16
      [] s = "fsnative" -> 17
      [] s = "nback" -> 18
      [] s = "pial" -> 19
      [] s = "preproc" -> 20
      [] s = "rest" -> 21
      [] s = "sub-" -> 22
      [] s = "tofail" -> 23
      [] s = "xfm" -> 24
      [] OTHER -> 25

----------------------------------------------------------------------------
(* Initial state: nothing called yet.                                      *)

\* The directories that can hold a dataset_description.json.
Dirs == {"dset", "out"}

Init ==
    /\ pc = "start"
    /\ layout = {}
    /\ args = None
    /\ subj_data = None
    /\ err = NoErr
    /\ warned = {}
    /\ errors = {}
    /\ ret = None
    /\ opts = None
    /\ environ = None
    /\ fs = [d \in Dirs |-> None]
    /\ calls = <<>>
    /\ locals = None

----------------------------------------------------------------------------
(* sorted(): Python orders strings lexicographically.  A string is ordered *)
(* by the tuple of the ranks of its parts.                                 *)

\* a < b for two tuples of integers, a proper prefix sorting first.
RECURSIVE LexLess(_, _)
LexLess(a, b) ==
    IF b = <<>> THEN FALSE
    ELSE IF a = <<>> THEN TRUE
    ELSE IF Head(a) # Head(b) THEN Head(a) < Head(b)
    ELSE LexLess(Tail(a), Tail(b))

\* sorted(S): the elements of S in increasing order of key[x].
RECURSIVE Sorted(_, _)
Sorted(S, key) ==
    IF S = {} THEN <<>>
    ELSE LET m == CHOOSE x \in S : \A y \in S \ {x} : LexLess(key[x], key[y])
         IN  <<m>> \o Sorted(S \ {m}, key)

Range(s) == {s[i] : i \in DOMAIN s}

----------------------------------------------------------------------------
(* collect_participants (xcp_d/utils/bids.py).  A participant label is the *)
(* tuple of its parts: "sub-01" is <<"sub-", "01">>, "01" is <<"01">>, the  *)
(* empty string is <<>>.                                                   *)

MaxLabels == 2

Subjects == {<<"01">>, <<"02">>}
Labels == {<<"01">>, <<"02">>, <<"fail">>, <<"sub-", "01">>, <<"sub-", "fail">>}

LabelKey == [l \in Labels \cup Subjects |-> [i \in DOMAIN l |-> StrRank(l[i])]]

LabelLists == UNION {[1..n -> Labels] : n \in 0..MaxLabels}

\* The values --participant_label can have: None, one string, a list.
ParticipantLabels ==
    {[kind |-> "none", val |-> <<>>]}
        \cup {[kind |-> "str", val |-> <<l>>] : l \in Labels \cup {<<>>}}
        \cup {[kind |-> "list", val |-> ls] : ls \in LabelLists}

MsgNoSubjects == "Could not find participants. Please make sure the BIDS derivatives are accessible"
MsgNoneFound == "Could not find participants [...]"
MsgSomeNotFound == "Some participants were not found: ..."

\* A label kept as it was given.
KeepPrefix(sub) == sub

\* sub[4:] if sub.startswith("sub-") else sub
DropPrefix(sub) == IF sub # <<>> /\ Head(sub) = "sub-" THEN Tail(sub) ELSE sub

\* `not participant_label`: None, the empty string and the empty list are false.
NoLabel(pl) ==
    \/ pl.kind = "none"
    \/ pl.kind = "str" /\ pl.val = << <<>> >>
    \/ pl.kind = "list" /\ pl.val = <<>>

\* The labels asked for, prefixes dropped and duplicates removed.
RequestedLabels(pl) == {DropPrefix(l) : l \in Range(pl.val)}

\* collect_participants returning a list where it should raise for want of
\* participants.
collect_participants_lenient(all_participants, participant_label, strict) ==
    LET requested == RequestedLabels(participant_label)
        found == requested \cap all_participants
        notfound == requested \ all_participants
    IN  IF NoLabel(participant_label) \/ all_participants = {}
        THEN [ret |-> Some(Sorted(all_participants, LabelKey)), err |-> NoErr,
              warned |-> {}]
        ELSE IF notfound # {} /\ strict
        THEN [ret |-> None, err |-> [type |-> "BIDSError", msg |-> MsgSomeNotFound],
              warned |-> {}]
        ELSE IF notfound # {}
        THEN [ret |-> Some(Sorted(found, LabelKey)), err |-> NoErr,
              warned |-> {[type |-> "BIDSWarning", msg |-> MsgSomeNotFound]}]
        ELSE [ret |-> Some(Sorted(found, LabelKey)), err |-> NoErr, warned |-> {}]

\* collect_participants raising for a missing label whatever strict is.
collect_participants_always_strict(all_participants, participant_label, strict) ==
    LET requested == RequestedLabels(participant_label)
        found == requested \cap all_participants
        notfound == requested \ all_participants
    IN  IF all_participants = {}
        THEN [ret |-> None, err |-> [type |-> "BIDSError", msg |-> MsgNoSubjects],
              warned |-> {}]
        ELSE IF NoLabel(participant_label)
        THEN [ret |-> Some(Sorted(all_participants, LabelKey)), err |-> NoErr,
              warned |-> {}]
        ELSE IF found = {}
        THEN [ret |-> None, err |-> [type |-> "BIDSError", msg |-> MsgNoneFound],
              warned |-> {}]
        ELSE IF notfound # {}
        THEN [ret |-> None, err |-> [type |-> "BIDSError", msg |-> MsgSomeNotFound],
              warned |-> {}]
        ELSE [ret |-> Some(Sorted(found, LabelKey)), err |-> NoErr, warned |-> {}]

\* The outcome of collect_participants: what it returns, raises and warns.
collect_participants(all_participants, participant_label, strict) ==
    LET requested == RequestedLabels(participant_label)
        found == requested \cap all_participants
        notfound == requested \ all_participants
    IN  IF all_participants = {}
        THEN [ret |-> None, err |-> [type |-> "BIDSError", msg |-> MsgNoSubjects],
              warned |-> {}]
        ELSE IF NoLabel(participant_label)
        THEN [ret |-> Some(Sorted(all_participants, LabelKey)), err |-> NoErr,
              warned |-> {}]
        ELSE IF found = {}
        THEN [ret |-> None, err |-> [type |-> "BIDSError", msg |-> MsgNoneFound],
              warned |-> {}]
        ELSE IF notfound # {} /\ strict
        THEN [ret |-> None, err |-> [type |-> "BIDSError", msg |-> MsgSomeNotFound],
              warned |-> {}]
        ELSE IF notfound # {}
        THEN [ret |-> Some(Sorted(found, LabelKey)), err |-> NoErr,
              warned |-> {[type |-> "BIDSWarning", msg |-> MsgSomeNotFound]}]
        ELSE [ret |-> Some(Sorted(found, LabelKey)), err |-> NoErr, warned |-> {}]

CollectParticipants ==
    /\ pc = "start"
    /\ \E S \in SUBSET Subjects, pl \in ParticipantLabels, strict \in BOOLEAN :
         LET out == collect_participants(S, pl, strict)
         IN  /\ args' = [all_participants |-> S, participant_label |-> pl,
                         strict |-> strict]
             /\ ret' = out.ret
             /\ err' = out.err
             /\ warned' = out.warned
    /\ pc' = "collect_participants"
    /\ UNCHANGED <<fs, calls, locals, layout, subj_data, errors, opts, environ>>

NextParticipants == CollectParticipants

SpecParticipants == Init /\ [][NextParticipants]_vars

(* Claims about collect_participants.                                      *)

CalledParticipants == pc = "collect_participants"

IsBidsError(e, msgs) == e.type = "BIDSError" /\ e.msg \in msgs

\* The subjects of S that a label of the request names, with or without "sub-".
NamedSubjects(S, pl) ==
    {l \in S : \E r \in Range(pl.val) : r = l \/ r = <<"sub-">> \o l}

\* s is strictly increasing in Python's string order (sorted, no duplicates).
StrictlySorted(s) ==
    \A i, j \in DOMAIN s : i < j => LexLess(LabelKey[s[i]], LabelKey[s[j]])

\* C7: on a dataset with a non-empty subject set S, what collect_participants
\* returns is sorted(S) when participant_label is None or empty, and otherwise
\* the sorted, duplicate-free list of exactly the requested labels ("sub-"
\* dropped, a single string counting as one label) that are in S; the result
\* is a non-empty subset of S.
C7_ParticipantsReturned ==
    (CalledParticipants /\ args.all_participants # {} /\ ret # None) =>
        LET found == ret[1]
            S == args.all_participants
            pl == args.participant_label
        IN  /\ StrictlySorted(found)
            /\ Range(found) # {}
            /\ Range(found) \subseteq S
            /\ NoLabel(pl) => Range(found) = S
            /\ ~NoLabel(pl) => Range(found) = NamedSubjects(S, pl)

\* A list with a "sub-" label and a duplicate returned both subjects.
C7_Witness ==
    /\ CalledParticipants
    /\ args.participant_label.kind = "list"
    /\ args.participant_label.val = << <<"sub-", "01">>, <<"01">> >>
    /\ ret = Some(<< <<"01">> >>)

\* C8: collect_participants raises BIDSError "Could not find participants" and
\* returns nothing when the dataset has no subjects, and when labels are
\* requested and none of them, "sub-" dropped, is a subject of the dataset.
C8_ParticipantsNotFound ==
    CalledParticipants =>
        LET S == args.all_participants
            pl == args.participant_label
        IN  (S = {} \/ (~NoLabel(pl) /\ NamedSubjects(S, pl) = {})) =>
                /\ IsBidsError(err, {MsgNoSubjects, MsgNoneFound})
                /\ ret = None

\* Labels were requested on a dataset with subjects, and none was found.
C8_Witness ==
    /\ CalledParticipants
    /\ args.all_participants # {}
    /\ args.participant_label.kind = "str"
    /\ args.participant_label.val = << <<"sub-", "fail">> >>
    /\ err.msg = MsgNoneFound

\* C9: when some but not all requested labels are found, strict=True raises
\* BIDSError "Some participants were not found"; strict=False emits a
\* BIDSWarning with that message and returns exactly the found labels.
C9_ParticipantsPartlyFound ==
    CalledParticipants =>
        LET S == args.all_participants
            pl == args.participant_label
            named == NamedSubjects(S, pl)
            missing == {r \in Range(pl.val) :
                            \A l \in S : r # l /\ r # <<"sub-">> \o l}
        IN  (~NoLabel(pl) /\ named # {} /\ missing # {}) =>
                IF args.strict
                THEN IsBidsError(err, {MsgSomeNotFound}) /\ ret = None
                ELSE /\ warned = {[type |-> "BIDSWarning", msg |-> MsgSomeNotFound]}
                     /\ err = NoErr
                     /\ ret # None
                     /\ Range(ret[1]) = named

\* ["01", "fail"] without strict: a warning, and ["01"] returned.
C9_Witness ==
    /\ CalledParticipants
    /\ ~args.strict
    /\ args.participant_label.val = << <<"01">>, <<"fail">> >>
    /\ args.all_participants = Subjects
    /\ warned # {}
    /\ ret = Some(<< <<"01">> >>)

----------------------------------------------------------------------------
(* The derivatives dataset: the files BIDSLayout indexes.  A file is the   *)
(* record of the entities of its name; the entity names are pybids's.      *)

MaxFiles == 3

File(sub, datatype, suffix, task, space, res, den, desc, from, to, ext) ==
    [sub |-> sub, datatype |-> datatype, suffix |-> suffix, task |-> task,
     space |-> space, res |-> res, den |-> den, desc |-> desc,
     from |-> from, to |-> to, extension |-> ext]

Bold(sub, task, space, res, den, ext) ==
    File(sub, "func", "bold", task, space, res, den, "preproc", "", "", ext)

Xfm(from, to) ==
    File("01", "anat", "xfm", "", "", "", "", "", from, to, "h5")

Anat(suffix, space, desc, ext) ==
    File("01", "anat", suffix, "", space, "", "", desc, "", "", ext)

BoldFiles ==
    {Bold("01", "rest", NLin6, "", "", "nii.gz"),
     Bold("01", "rest", NLin2009c, "1", "", "nii.gz"),
     Bold("01", "rest", NLin2009c, "2", "", "nii.gz"),
     Bold("01", "rest", Infant, "", "", "nii.gz"),
     Bold("01", "rest", "T1w", "", "", "nii.gz"),
     Bold("01", "rest", "fsLR", "", "91k", "dtseries.nii"),
     Bold("01", "rest", "fsLR", "", "32k", "dtseries.nii"),
     Bold("01", "nback", NLin6, "", "", "nii.gz"),
     Bold("02", "rest", NLin6, "", "", "nii.gz")}

RegFiles ==
    {Xfm(NLin6, "T1w"), Xfm("T1w", NLin6),
     Xfm(NLin2009c, "T1w"), Xfm("T1w", NLin2009c),
     Xfm(Infant, "T1w"), Xfm("T1w", Infant),
     Xfm("T1w", "fsnative")}

AnatFiles ==
    {Anat("T1w", "", "preproc", "nii.gz"),
     Anat("T1w", NLin2009c, "preproc", "nii.gz"),
     Anat("dseg", "", "", "nii.gz"),
     Anat("dseg", "", "aseg", "nii.gz"),
     Anat("dseg", "", "aparcaseg", "nii.gz"),
     Anat("dseg", NLin2009c, "", "nii.gz"),
     Anat("pial", "", "", "gii")}

AllFiles == BoldFiles \cup RegFiles \cup AnatFiles

\* The subsets of U with at most n elements.
RECURSIVE SubsetsUpTo(_, _)
SubsetsUpTo(U, n) ==
    IF n = 0 THEN {{}}
    ELSE LET P == SubsetsUpTo(U, n - 1)
         IN  P \cup {D \cup {f} : D \in P, f \in U}

Datasets == SubsetsUpTo(AllFiles, MaxFiles)

\* The path of a file as sorted() compares it: the entities in the order of
\* the name, sub-<sub>_task-_space-_res-_den-_from-_to-_desc-_<suffix>.<ext>.
\* Where an entity is absent the next part of the name is compared: what
\* follows sorts before "task-", "space-", "res-" and "from-", while "den-"
\* sorts before "desc-" and "desc-" before the suffixes dseg, pial and xfm.
PathKey(f) ==
    <<StrRank(f.sub), StrRank(f.task), StrRank(f.space), StrRank(f.res),
      IF f.den = "" THEN StrRank("xfm") ELSE StrRank(f.den),
      StrRank(f.from), StrRank(f.to),
      IF f.desc = "" THEN StrRank("xfm") ELSE StrRank(f.desc),
      StrRank(f.suffix)>>

FileKey == [f \in AllFiles |-> PathKey(f)]

----------------------------------------------------------------------------
(* BIDSLayout.get: a query maps an entity to the set of values it allows   *)
(* ("" in the set stands for None: the entity is absent).                  *)

Matches(f, query) == \A e \in DOMAIN query : f[e] \in query[e]

\* layout.get(**query)
Get(files, query) == {f \in files : Matches(f, query)}

\* layout.get_res / get_den: the values of entity e in the matching files.
GetEntity(files, e, query) ==
    LET vals == {f[e] : f \in {g \in Get(files, query) : g[e] # ""}}
        key == [v \in vals |-> <<StrRank(v)>>]
    IN  Sorted(vals, key)

\* dict.update: the entries of new replace those of old.
Update(old, new) == new @@ old

----------------------------------------------------------------------------
(* collect_data (xcp_d/utils/bids.py).                                     *)

PREFERRED_SPACES(cifti) ==
    IF cifti THEN <<"fsLR">> ELSE <<NLin6, NLin2009c, Infant>>

DefaultQueries ==
    [regfile |-> [datatype |-> {"anat"}, suffix |-> {"xfm"}],
     bold |-> [datatype |-> {"func"}, suffix |-> {"bold"}, desc |-> {"preproc", ""}],
     t1w |-> [datatype |-> {"anat"}, suffix |-> {"T1w"}],
     seg_data |-> [datatype |-> {"anat"}, suffix |-> {"dseg"}],
     pial |-> [datatype |-> {"anat"}, suffix |-> {"pial"}],
     wm |-> [datatype |-> {"anat"}, suffix |-> {"smoothwm"}],
     midthickness |-> [datatype |-> {"anat"}, suffix |-> {"midthickness"}],
     inflated |-> [datatype |-> {"anat"}, suffix |-> {"inflated"}]]

DefaultExtensions == {"nii", "nii.gz", "dtseries.nii", "h5", "gii"}

\* --bids-filter-file: None, or a query to merge in per file type.
BidsFilters ==
    {None,
     [bold |-> [space |-> {NLin2009c}]],
     [bold |-> [task |-> {"nback"}]]}

Tasks == {None, Some("rest")}

\* queries after the filters, the extensions and the task are set
\* (lines 181-198).
Queries(task, bids_filters, cifti) ==
    LET filtered == [acq \in DOMAIN DefaultQueries |->
                        IF acq \in DOMAIN bids_filters
                        THEN Update(DefaultQueries[acq], bids_filters[acq])
                        ELSE DefaultQueries[acq]]
        boldext == IF "extension" \in DOMAIN filtered.bold
                   THEN filtered.bold
                   ELSE Update(filtered.bold,
                               [extension |-> IF cifti THEN {"dtseries.nii"}
                                              ELSE {"nii.gz"}])
        withext == [acq \in DOMAIN filtered |->
                        LET q == IF acq = "bold" THEN boldext ELSE filtered[acq]
                        IN  IF "extension" \in DOMAIN q THEN q
                            ELSE Update(q, [extension |-> DefaultExtensions])]
    IN  IF task # None
        THEN [withext EXCEPT !.bold = Update(@, [task |-> {task[1]}])]
        ELSE withext

\* The search taking the last space that has BOLD data.
RECURSIVE LastSpace(_, _, _)
LastSpace(files, query, spaces) ==
    IF spaces = <<>> THEN None
    ELSE IF Get(files, Update(query, [space |-> {spaces[Len(spaces)]}])) # {}
    THEN Some(spaces[Len(spaces)])
    ELSE LastSpace(files, query, SubSeq(spaces, 1, Len(spaces) - 1))

\* The first of the spaces that has BOLD data in the layout (lines 202-209):
\* the space found, or None and the empty bold_data of the last query.
RECURSIVE BestSpace(_, _, _)
BestSpace(files, query, spaces) ==
    IF spaces = <<>> THEN None
    ELSE IF Get(files, Update(query, [space |-> {Head(spaces)}])) # {}
    THEN Some(Head(spaces))
    ELSE BestSpace(files, query, Tail(spaces))

MsgNoBold == "No BOLD data found in allowed spaces (...)."
MsgUnbound == "local variable 'bold_data' referenced before assignment"

\* queries["bold"] narrowed to the first resolution and density when there
\* are several (lines 218-224).
Narrowed(files, query) ==
    LET resolutions == GetEntity(files, "res", query)
        densities == GetEntity(files, "den", query)
        withres == IF Len(resolutions) > 1
                   THEN Update(query, [res |-> {resolutions[1]}])
                   ELSE query
    IN  IF Len(densities) > 1
        THEN Update(withres, [den |-> {densities[1]}])
        ELSE withres

\* The outcome of collect_data: subj_data, or the exception raised.
collect_data(files, participant_label, task, bids_filters, cifti) ==
    LET queries == Queries(task, bids_filters, cifti)
        allowed_spaces == PREFERRED_SPACES(cifti)
        searched == "space" \notin DOMAIN queries.bold
        best == BestSpace(files, queries.bold, allowed_spaces)
    IN  IF ~searched
        THEN [subj_data |-> None, space |-> None,
              err |-> [type |-> "UnboundLocalError", msg |-> MsgUnbound]]
        ELSE IF best = None
        THEN [subj_data |-> None, space |-> None,
              err |-> [type |-> "ValueError", msg |-> MsgNoBold]]
        ELSE LET boldq == Narrowed(files,
                                   Update(queries.bold, [space |-> {best[1]}]))
                 final == [queries EXCEPT !.bold = boldq]
             IN  [subj_data |->
                      Some([dtype \in DOMAIN final |->
                              Sorted(Get(files, Update(final[dtype],
                                                       [sub |-> {participant_label}])),
                                     FileKey)]),
                  space |-> best,
                  err |-> NoErr]

CollectData ==
    /\ pc = "start"
    /\ \E files \in Datasets, participant_label \in {"01", "02"}, task \in Tasks,
          bids_filters \in BidsFilters, cifti \in BOOLEAN :
         LET out == collect_data(files, participant_label, task, bids_filters, cifti)
         IN  /\ layout' = files
             /\ args' = [participant_label |-> participant_label, task |-> task,
                         bids_filters |-> bids_filters, cifti |-> cifti]
             /\ subj_data' = out.subj_data
             /\ err' = out.err
    /\ pc' = "collect_data"
    /\ ret' = None
    /\ UNCHANGED <<fs, calls, locals, warned, errors, opts, environ>>

----------------------------------------------------------------------------
(* select_registrationfile (xcp_d/utils/bids.py).                          *)

template1 == NLin6
template2 == NLin2009c
template3 == Infant

\* "from-" + template in j, "to-" + template in j
FromIn(template, j) == j.from = template
ToIn(template, j) == j.to = template

\* The loop with the first file found kept, whatever its template.
RegStepFirst(pair, j) ==
    IF j.from \in {template1, template2, template3} /\ pair[1] = None
    THEN <<Some(j), pair[2]>>
    ELSE IF j.to \in {template1, template2, template3} /\ pair[2] = None
    THEN <<pair[1], Some(j)>>
    ELSE pair

\* One pass of the loop over regfile (lines 265-277); a pair is
\* <<mni_to_t1w, t1w_to_mni>>.
RegStep(pair, j) ==
    IF \/ FromIn(template1, j)
       \/ FromIn(template2, j) /\ pair[1] = None
       \/ FromIn(template3, j) /\ pair[1] = None
    THEN <<Some(j), pair[2]>>
    ELSE IF \/ ToIn(template1, j)
            \/ ToIn(template2, j) /\ pair[2] = None
            \/ ToIn(template3, j) /\ pair[2] = None
    THEN <<pair[1], Some(j)>>
    ELSE pair

RECURSIVE RegLoop(_, _)
RegLoop(pair, regfile) ==
    IF regfile = <<>> THEN pair
    ELSE RegLoop(RegStep(pair, Head(regfile)), Tail(regfile))

select_registrationfile(sd) == RegLoop(<<None, None>>, sd.regfile)

SelectRegistrationfile ==
    /\ pc = "collect_data"
    /\ subj_data # None
    /\ ret' = Some(select_registrationfile(subj_data[1]))
    /\ pc' = "select_registrationfile"
    /\ UNCHANGED <<fs, calls, locals, layout, args, subj_data, err, warned, errors, opts, environ>>

----------------------------------------------------------------------------
(* extract_t1w_seg (xcp_d/utils/bids.py).                                  *)

\* fnmatch(basename, "*_space-*"): the name has a space entity.
HasSpaceEntity(f) == f.space # ""

\* fnmatch(basename, "*aseg*"): "aseg" occurs in a part of the name.
WithAseg == {"aseg", "aparcaseg"}
HasAseg(f) == \E e \in DOMAIN f : f[e] \in WithAseg

\* The last file of the list that passes, or None (lines 302-318).
RECURSIVE LastOf(_, _)
LastOf(files, ok) ==
    IF files = <<>> THEN None
    ELSE IF ok[files[Len(files)]] THEN Some(files[Len(files)])
    ELSE LastOf(SubSeq(files, 1, Len(files) - 1), ok)

T1wOk == [f \in AllFiles |-> ~HasSpaceEntity(f)]
\* The segmentation test without the aseg exclusion.
SegOkAnyDesc == [f \in AllFiles |-> ~HasSpaceEntity(f)]

SegOk == [f \in AllFiles |-> ~(HasSpaceEntity(f) \/ HasAseg(f))]

MsgNoT1w == "No T1w file found."
MsgNoSeg == "No segmentation file found."

extract_t1w_seg(sd) ==
    LET selected_t1w_file == LastOf(sd.t1w, T1wOk)
        selected_t1w_seg_file == LastOf(sd.seg_data, SegOk)
    IN  IF selected_t1w_file = None
        THEN [ret |-> None, err |-> [type |-> "ValueError", msg |-> MsgNoT1w]]
        ELSE IF selected_t1w_seg_file = None
        THEN [ret |-> None, err |-> [type |-> "ValueError", msg |-> MsgNoSeg]]
        ELSE [ret |-> Some(<<selected_t1w_file, selected_t1w_seg_file>>),
              err |-> NoErr]

ExtractT1wSeg ==
    /\ pc = "collect_data"
    /\ subj_data # None
    /\ LET out == extract_t1w_seg(subj_data[1])
       IN  ret' = out.ret /\ err' = out.err
    /\ pc' = "extract_t1w_seg"
    /\ UNCHANGED <<fs, calls, locals, layout, args, subj_data, warned, errors, opts, environ>>

NextBids == CollectData \/ SelectRegistrationfile \/ ExtractT1wSeg

Spec == Init /\ [][NextBids]_vars


----------------------------------------------------------------------------
(* Claims about collect_data, select_registrationfile, extract_t1w_seg.    *)

Collected == pc \in {"collect_data", "select_registrationfile", "extract_t1w_seg"}

\* The call gave no 'space' for the bold query.
NoSpaceFilter ==
    ~("bold" \in DOMAIN args.bids_filters
        /\ "space" \in DOMAIN args.bids_filters.bold)

\* f is a BOLD file of the kind the call asks for: preprocessed BOLD data
\* with the extension of the mode and the task requested.
WantedBold(f) ==
    /\ f.datatype = "func" /\ f.suffix = "bold"
    /\ f.desc \in {"preproc", ""}
    /\ f.extension = (IF args.cifti THEN "dtseries.nii" ELSE "nii.gz")
    /\ IF args.task # None THEN f.task = args.task[1]
       ELSE ("bold" \in DOMAIN args.bids_filters
               /\ "task" \in DOMAIN args.bids_filters.bold)
                => f.task \in args.bids_filters.bold.task

SpacesHeld == {f.space : f \in {g \in layout : WantedBold(g)}}

\* The preference order of the mode, as positions.
Preference ==
    IF args.cifti THEN [s \in {"fsLR"} |-> 1]
    ELSE (NLin6 :> 1) @@ (NLin2009c :> 2) @@ (Infant :> 3)

\* C2: without a 'space' filter the space of the BOLD data is the first in the
\* preference order (MNI152NLin6Asym, MNI152NLin2009cAsym, MNIInfant; fsLR
\* for cifti) in which the layout holds a matching BOLD file, and every file
\* of subj_data['bold'] is in that one space.
C2_BestSpaceSelected ==
    (Collected /\ NoSpaceFilter /\ subj_data # None) =>
        \E space \in SpacesHeld \cap DOMAIN Preference :
            /\ \A other \in SpacesHeld \cap DOMAIN Preference :
                   Preference[space] <= Preference[other]
            /\ \A i \in DOMAIN subj_data[1].bold :
                   /\ subj_data[1].bold[i].space = space
                   /\ subj_data[1].bold[i] \in layout
                   /\ subj_data[1].bold[i].sub = args.participant_label

\* The participant has BOLD data in two allowed spaces; the preferred one
\* is returned.
C2_Witness ==
    /\ pc = "collect_data"
    /\ ~args.cifti
    /\ args.participant_label = "01"
    /\ {NLin2009c, Infant} \subseteq SpacesHeld
    /\ subj_data # None
    /\ Len(subj_data[1].bold) = 1
    /\ subj_data[1].bold[1].space = NLin2009c

\* The listings of a list in every order.
Orders(s) ==
    {[i \in DOMAIN s |-> s[p[i]]] : p \in Permutations(DOMAIN s)}

Selected == pc = "select_registrationfile"

Templates == {NLin6, NLin2009c, Infant}

\* The first file of a listing whose entity e names a template, or None.
RECURSIVE FirstNaming(_, _)
FirstNaming(listing, e) ==
    IF listing = <<>> THEN None
    ELSE IF Head(listing)[e] \in Templates THEN Some(Head(listing))
    ELSE FirstNaming(Tail(listing), e)

TemplatesHeld ==
    {f.from : f \in {g \in layout : g.suffix = "xfm" /\ g.from \in Templates}}
        \cup {f.to : f \in {g \in layout : g.suffix = "xfm" /\ g.to \in Templates}}

\* C4: for NIfTI processing the template of the selected template-to-anat
\* ("from-") and anat-to-template ("to-") transforms is the space of the BOLD
\* files collect_data selected, in every dataset with transforms for more
\* than one template.
C4_TransformMatchesBoldSpace ==
    (Selected /\ ~args.cifti /\ Cardinality(TemplatesHeld) > 1) =>
        \A i \in DOMAIN subj_data[1].bold :
            /\ ret[1][1] # None => ret[1][1][1].from = subj_data[1].bold[i].space
            /\ ret[1][2] # None => ret[1][2][1].to = subj_data[1].bold[i].space

\* C5: collect_data raises FileNotFoundError, and returns no subj_data, when
\* the dataset has no BOLD file in any allowed space of the mode.
C5_NoBoldFileNotFoundError ==
    (pc = "collect_data" /\ NoSpaceFilter
        /\ SpacesHeld \cap DOMAIN Preference = {}) =>
            err.type = "FileNotFoundError" /\ subj_data = None

Extracted == pc = "extract_t1w_seg"

\* An anatomical file in the participant's own space: no space entity.
Native(f) == f.space = ""

\* C6: extract_t1w_seg returns a T1w file with no space entity and a
\* segmentation file with neither a space entity nor "aseg" in its name; it
\* raises ValueError "No T1w file found." when there is no such T1w file, else
\* "No segmentation file found." when there is no such segmentation, and
\* neither element returned is None.
C6_NativeT1wAndSeg ==
    Extracted =>
        LET t1ws == {f \in Range(subj_data[1].t1w) : Native(f)}
            segs == {f \in Range(subj_data[1].seg_data) :
                        Native(f) /\ f.desc \notin {"aseg", "aparcaseg"}}
        IN  /\ ret # None =>
                /\ ret[1][1] # None /\ ret[1][1][1] \in t1ws
                /\ ret[1][2] # None /\ ret[1][2][1] \in segs
                /\ err = NoErr
            /\ t1ws = {} => ret = None /\ err = [type |-> "ValueError", msg |-> MsgNoT1w]
            /\ (t1ws # {} /\ segs = {}) =>
                   ret = None /\ err = [type |-> "ValueError", msg |-> MsgNoSeg]
            /\ (t1ws # {} /\ segs # {}) => ret # None

\* The native T1w and segmentation are returned.
C6_Witness ==
    /\ Extracted
    /\ ret # None
    /\ ret[1][1] # None /\ ret[1][1][1].suffix = "T1w"
    /\ ret[1][2] # None /\ ret[1][2][1].suffix = "dseg"

----------------------------------------------------------------------------
(* get_bold2std_and_t1w_xfms (xcp_d.utils.utils): the chains of transforms *)
(* from the space of a BOLD file to MNI152NLin2009cAsym and to T1w.        *)

\* The BOLD files and template-to-anat transforms the function is given.
XfmBoldSpaces == {NLin2009c, NLin6, Infant, "T1w", "", "fsLR", "tofail"}
XfmBolds ==
    {Bold(sub, task, space, "", "", "nii.gz") :
        sub \in {"01", "02"}, task \in {"rest", "nback"}, space \in XfmBoldSpaces}
XfmTemplates == {NLin2009c, NLin6, Infant, "tofail"}

AnatToNative == Xfm("T1w", "scanner")

Identity == [kind |-> "identity"]
\* A transform between two templates, shipped with templateflow or xcp_d.
TemplateXfm(from, to) == [kind |-> "template", from |-> from, to |-> to]
FileXfm(f) == [kind |-> "file", file |-> f]

\* get_entity(bold_file, "space"): a BOLD file without the entity is native.
BoldSpace(bold_file) == IF bold_file.space = "" THEN "native" ELSE bold_file.space

MsgMismatch == "Transform does not match BOLD space"
MsgUnsupported == "Space '...' not supported."

Chains(to_mni, to_mni_invert, to_t1w, to_t1w_invert) ==
    [ret |-> Some(<<to_mni, to_mni_invert, to_t1w, to_t1w_invert>>), err |-> NoErr]

\* The chains with the to-T1w chain left empty where no warp is needed.
xfms_no_identity(bold_file, template_to_anat_xfm, anat_to_native_xfm) ==
    LET bold_space == BoldSpace(bold_file)
        t2a == FileXfm(template_to_anat_xfm)
    IN  IF bold_space = "T1w"
        THEN Chains(<<t2a>>, <<TRUE>>, <<>>, <<>>)
        ELSE IF bold_space = "native"
        THEN Chains(<<t2a, FileXfm(anat_to_native_xfm)>>, <<TRUE, TRUE>>,
                    <<FileXfm(anat_to_native_xfm)>>, <<TRUE>>)
        ELSE Chains(<<Identity>>, <<FALSE>>, <<t2a>>, <<FALSE>>)

get_bold2std_and_t1w_xfms(bold_file, template_to_anat_xfm, anat_to_native_xfm) ==
    LET bold_space == BoldSpace(bold_file)
        base_std_space == template_to_anat_xfm.from
        t2a == FileXfm(template_to_anat_xfm)
        a2n == FileXfm(anat_to_native_xfm)
        std_to_mni == TemplateXfm(NLin2009c, base_std_space)
    IN  IF bold_space \notin {"native", "T1w"} /\ base_std_space # bold_space
        THEN [ret |-> None, err |-> [type |-> "ValueError", msg |-> MsgMismatch]]
        ELSE IF bold_space = NLin2009c
        THEN Chains(<<Identity>>, <<FALSE>>, <<t2a>>, <<FALSE>>)
        ELSE IF bold_space = NLin6
        THEN Chains(<<TemplateXfm(NLin6, NLin2009c)>>, <<FALSE>>, <<t2a>>, <<FALSE>>)
        ELSE IF bold_space = Infant
        THEN Chains(<<TemplateXfm(Infant, NLin2009c)>>, <<FALSE>>, <<t2a>>, <<FALSE>>)
        ELSE IF bold_space = "T1w"
        THEN IF base_std_space # NLin2009c
             THEN Chains(<<std_to_mni, t2a>>, <<TRUE, TRUE>>, <<Identity>>, <<FALSE>>)
             ELSE Chains(<<t2a>>, <<TRUE>>, <<Identity>>, <<FALSE>>)
        ELSE IF bold_space = "native"
        THEN IF base_std_space # NLin2009c
             THEN Chains(<<std_to_mni, t2a, a2n>>, <<TRUE, TRUE, TRUE>>,
                         <<a2n>>, <<TRUE>>)
             ELSE Chains(<<t2a, a2n>>, <<TRUE, TRUE>>, <<a2n>>, <<TRUE>>)
        ELSE [ret |-> None, err |-> [type |-> "ValueError", msg |-> MsgUnsupported]]

GetBold2stdAndT1wXfms ==
    /\ pc = "start"
    /\ \E bold_file \in XfmBolds, template \in XfmTemplates :
         LET out == get_bold2std_and_t1w_xfms(bold_file, Xfm(template, "T1w"),
                                              AnatToNative)
         IN  /\ args' = [bold_file |-> bold_file,
                         template_to_anat_xfm |-> Xfm(template, "T1w")]
             /\ ret' = out.ret
             /\ err' = out.err
    /\ pc' = "get_bold2std_and_t1w_xfms"
    /\ UNCHANGED <<fs, calls, locals, layout, subj_data, warned, errors, opts, environ>>

NextXfms == GetBold2stdAndT1wXfms

SpecXfms == Init /\ [][NextXfms]_vars

(* Claims about get_bold2std_and_t1w_xfms.                                 *)

Chained == pc = "get_bold2std_and_t1w_xfms"

\* C1: for a BOLD file in space S and a transform from template T, the chain to
\* the standard space has length 1 when S is a standard space equal to T or S
\* is T1w with T = MNI152NLin2009cAsym, length 2 when S is T1w with T =
\* MNI152NLin6Asym or S is native with T = MNI152NLin2009cAsym, and length 3 when
\* S is native with T = MNI152NLin6Asym; the chain to T1w has length 1 (an
\* identity where no warp is needed); each list of inversion flags is as long
\* as its chain.
C1_ChainLengths ==
    Chained =>
        LET S == args.bold_file.space
            T == args.template_to_anat_xfm.from
            covered == \/ S \in {NLin2009c, NLin6, Infant} /\ S = T
                       \/ S \in {"T1w", ""} /\ T \in {NLin2009c, NLin6}
            expected == IF S = "T1w" THEN (IF T = NLin2009c THEN 1 ELSE 2)
                        ELSE IF S = "" THEN (IF T = NLin2009c THEN 2 ELSE 3)
                        ELSE 1
        IN  /\ covered =>
                /\ ret # None
                /\ Len(ret[1][1]) = expected
                /\ Len(ret[1][3]) = 1
                /\ S = "T1w" => ret[1][3] = <<Identity>>
            /\ ret # None =>
                /\ Len(ret[1][2]) = Len(ret[1][1])
                /\ Len(ret[1][4]) = Len(ret[1][3])

\* A native-space BOLD file with the MNI152NLin6Asym transform: three steps to
\* the standard space, one to T1w.
C1_Witness ==
    /\ Chained
    /\ args.bold_file.space = ""
    /\ args.template_to_anat_xfm.from = NLin6
    /\ ret # None
    /\ Len(ret[1][1]) = 3
    /\ Len(ret[1][3]) = 1

----------------------------------------------------------------------------
(* _validate_parameters (xcp_d/cli/run.py).  A path is a record of its     *)
(* parts, relative or absolute; a frequency is counted in tenths of a      *)
(* breath per minute, a band-pass edge in thousandths of a hertz and the   *)
(* FD threshold in tenths of a millimetre.                                 *)

Path(abs, parts) == [abs |-> abs, parts |-> parts]

Cwd == <<"cwd">>

\* Path.resolve(): a relative path is taken from the working directory.
Resolve(p) == IF p.abs THEN p ELSE Path(TRUE, Cwd \o p.parts)

\* Path.is_file()
IsFile(p) == p.parts # <<>> /\ p.parts[Len(p.parts)] = "license.txt"

\* 1 breath per minute, in tenths.
OneBpm == 10

\* The truth value of a number that may be None: None and 0 are false.
Truthy(x) == x # None /\ x[1] # 0

\* The options the parser hands over.
Options ==
    [fmri_dir : {Path(FALSE, <<"dset">>)},
     output_dir : {Path(FALSE, <<"out">>), Path(TRUE, <<"cwd", "dset">>)},
     work_dir : {Path(FALSE, <<"work">>)},
     fs_license_file : {None, Some(Path(FALSE, <<"license.txt">>)),
                        Some(Path(FALSE, <<"missing.txt">>))},
     analysis_level : {"participant", "group"},
     lower_bpf : {-1, 10}, upper_bpf : {0, 10, 80}, bandpass_filter : BOOLEAN,
     fd_thresh : {-1, 0, 3}, min_time : {100},
     motion_filter_type : {None, Some("notch"), Some("lp")},
     band_stop_min : {None, Some(0), Some(5), Some(120)},
     band_stop_max : {None, Some(5), Some(180)},
     motion_filter_order : {Some(4)},
     input_type : {"fmriprep", "nibabies", "dcan", "hcp"},
     cifti : BOOLEAN, process_surfaces : BOOLEAN]

ErrLicense == "Freesurfer license DNE"
ErrSameDir == "The selected output folder is the same as the input fmri input."
ErrLevel == "Please select analysis level participant"
ErrBandpass == "'--lower-bpf' must be lower than '--upper-bpf'."
ErrNotchUnset == "Please set both '--band-stop-min' and '--band-stop-max'"
ErrNotchOrder == "'--band-stop-min' must be lower than '--band-stop-max'."
ErrLpUnset == "Please set '--band-stop-min' if you want to apply the 'lp' motion filter."
ErrSurfaces == "In order to perform surface normalization you must enable cifti processing"

\* build_log.error(msg) followed by return_code = 1
Error(st, msg) == [st EXCEPT !.errors = @ \cup {msg}, !.return_code = 1]
\* build_log.warning(msg)
Warning(st, msg) == [st EXCEPT !.warned = @ \cup {msg}]

\* Lines 686-690.
ResolveDirs(o) ==
    [opts |-> [o EXCEPT !.fmri_dir = Resolve(@), !.output_dir = Resolve(@),
                        !.work_dir = Resolve(@)],
     return_code |-> 0, errors |-> {}, warned |-> {}, environ |-> None]

\* Lines 692-700.
FsLicense(st) ==
    IF st.opts.fs_license_file # None
    THEN LET file == Resolve(st.opts.fs_license_file[1])
             resolved == [st EXCEPT !.opts.fs_license_file = Some(file)]
         IN  IF IsFile(file) THEN [resolved EXCEPT !.environ = Some(file)]
             ELSE Error(resolved, ErrLicense)
    ELSE st

\* The input checks with a return code that a passed check sets back to 0.
CheckInputsResetting(st) ==
    LET dirs == IF st.opts.output_dir = st.opts.fmri_dir
                THEN Error(st, ErrSameDir) ELSE st
    IN  IF dirs.opts.analysis_level # "participant"
        THEN Error(dirs, ErrLevel) ELSE [dirs EXCEPT !.return_code = 0]

\* Lines 702-714.
CheckInputs(st) ==
    LET dirs == IF st.opts.output_dir = st.opts.fmri_dir
                THEN Error(st, ErrSameDir) ELSE st
    IN  IF dirs.opts.analysis_level # "participant"
        THEN Error(dirs, ErrLevel) ELSE dirs

\* The band-pass check without the test that both edges are positive.
BandpassAnySign(st) ==
    LET off == IF st.opts.lower_bpf <= 0 /\ st.opts.upper_bpf <= 0
               THEN [st EXCEPT !.opts.bandpass_filter = FALSE] ELSE st
        o == off.opts
    IN  IF o.bandpass_filter /\ o.lower_bpf >= o.upper_bpf
        THEN Error(off, ErrBandpass)
        ELSE IF ~o.bandpass_filter THEN Warning(off, "Bandpass filtering is disabled.")
        ELSE off

\* The band-pass check that leaves bandpass_filter as it was given.
BandpassKeepsFlag(st) ==
    LET o == st.opts
    IN  IF /\ o.bandpass_filter
           /\ o.lower_bpf >= o.upper_bpf
           /\ o.lower_bpf > 0 /\ o.upper_bpf > 0
        THEN Error(st, ErrBandpass)
        ELSE IF ~o.bandpass_filter THEN Warning(st, "Bandpass filtering is disabled.")
        ELSE st

\* Lines 716-731.
Bandpass(st) ==
    LET off == IF st.opts.lower_bpf <= 0 /\ st.opts.upper_bpf <= 0
               THEN [st EXCEPT !.opts.bandpass_filter = FALSE] ELSE st
        o == off.opts
    IN  IF /\ o.bandpass_filter
           /\ o.lower_bpf >= o.upper_bpf
           /\ o.lower_bpf > 0 /\ o.upper_bpf > 0
        THEN Error(off, ErrBandpass)
        ELSE IF ~o.bandpass_filter THEN Warning(off, "Bandpass filtering is disabled.")
        ELSE off

\* Scrubbing that leaves the motion filter options as they were.
ScrubbingKeepsFilter(st) ==
    IF st.opts.fd_thresh <= 0
    THEN [Warning(st, "Framewise displacement-based scrubbing is disabled.") EXCEPT !.opts.min_time = 0]
    ELSE st

\* Lines 733-753.
Scrubbing(st) ==
    IF st.opts.fd_thresh <= 0
    THEN [Warning(st, "Framewise displacement-based scrubbing is disabled.") EXCEPT
            !.opts.min_time = 0,
            !.opts.motion_filter_type = None,
            !.opts.band_stop_min = None,
            !.opts.band_stop_max = None,
            !.opts.motion_filter_order = None]
    ELSE st

\* Lines 755-795.
MotionFilter(st) ==
    LET o == st.opts
    IN  IF o.motion_filter_type = Some("notch")
        THEN IF ~(Truthy(o.band_stop_min) /\ Truthy(o.band_stop_max))
             THEN Error(st, ErrNotchUnset)
             ELSE IF o.band_stop_min[1] >= o.band_stop_max[1]
             THEN Error(st, ErrNotchOrder)
             ELSE IF o.band_stop_min[1] < OneBpm \/ o.band_stop_max[1] < OneBpm
             THEN Warning(st, "Either '--band-stop-min' or '--band-stop-max' is suspiciously low.")
             ELSE st
        ELSE IF o.motion_filter_type = Some("lp")
        THEN LET min == IF ~Truthy(o.band_stop_min) THEN Error(st, ErrLpUnset)
                        ELSE IF o.band_stop_min[1] < OneBpm
                        THEN Warning(st, "'--band-stop-min' is suspiciously low.")
                        ELSE st
             IN  IF Truthy(o.band_stop_max) THEN Warning(min, "'--band-stop-max' is ignored when '--motion-filter-type' is 'lp'.") ELSE min
        ELSE IF Truthy(o.band_stop_min) \/ Truthy(o.band_stop_max)
        THEN Warning(st, "'--band-stop-min' and '--band-stop-max' are ignored")
        ELSE st

\* The input type step that enables cifti but not the surfaces.
InputTypeCiftiOnly(st) ==
    IF st.opts.input_type \in {"dcan", "hcp"} /\ ~st.opts.cifti
    THEN [Warning(st, "cifti processing (--cifti) will be enabled automatically.") EXCEPT !.opts.cifti = TRUE]
    ELSE st

\* Lines 797-811.
InputType(st) ==
    IF st.opts.input_type \in {"dcan", "hcp"}
    THEN LET c == IF ~st.opts.cifti
                  THEN [Warning(st, "cifti processing (--cifti) will be enabled automatically.") EXCEPT !.opts.cifti = TRUE]
                  ELSE st
         IN  IF ~c.opts.process_surfaces
             THEN [Warning(c, "surface normalization will be enabled automatically.") EXCEPT !.opts.process_surfaces = TRUE]
             ELSE c
    ELSE st

\* The surfaces check that only warns.
SurfacesWarnOnly(st) ==
    IF st.opts.process_surfaces /\ ~st.opts.cifti
    THEN Warning(st, ErrSurfaces)
    ELSE st

\* Lines 813-819.
Surfaces(st) ==
    IF st.opts.process_surfaces /\ ~st.opts.cifti
    THEN Error(st, ErrSurfaces)
    ELSE st

_validate_parameters(o) ==
    Surfaces(InputType(MotionFilter(Scrubbing(Bandpass(CheckInputs(
        FsLicense(ResolveDirs(o))))))))

ValidateParameters ==
    /\ pc = "start"
    /\ \E o \in Options :
         LET st == _validate_parameters(o)
         IN  /\ args' = o
             /\ opts' = st.opts
             /\ ret' = Some(st.return_code)
             /\ errors' = st.errors
             /\ warned' = st.warned
             /\ environ' = st.environ
    /\ pc' = "_validate_parameters"
    /\ UNCHANGED <<fs, calls, locals, layout, subj_data, err>>

NextValidate == ValidateParameters

SpecValidate == Init /\ [][NextValidate]_vars

(* Claims about _validate_parameters.                                      *)

Validated == pc = "_validate_parameters"

MotionFilterErrors == {ErrNotchUnset, ErrNotchOrder, ErrLpUnset}

\* C10: with fd_thresh <= 0, after _validate_parameters min_time is 0 and
\* motion_filter_type, band_stop_min, band_stop_max and motion_filter_order
\* are None, and no motion filter error is reported: whatever those options
\* were, the return code is 1 only for an error of another check.
C10_ScrubbingDisabled ==
    (Validated /\ args.fd_thresh <= 0) =>
        /\ opts.min_time = 0
        /\ opts.motion_filter_type = None
        /\ opts.band_stop_min = None
        /\ opts.band_stop_max = None
        /\ opts.motion_filter_order = None
        /\ errors \cap MotionFilterErrors = {}
        /\ ret = Some(1) => errors \ MotionFilterErrors # {}
        /\ ret \in {Some(0), Some(1)}

\* The notch filter was asked for without its band and censoring is off: the
\* options are reset and the call returns 0.
C10_Witness ==
    /\ Validated
    /\ args.fd_thresh = 0
    /\ args.motion_filter_type = Some("notch")
    /\ args.band_stop_min = None
    /\ opts.motion_filter_type = None
    /\ ret = Some(0)

\* C11: with fd_thresh > 0, _validate_parameters reports a motion filter error
\* (return code 1) exactly when motion_filter_type is 'notch' and band_stop_min
\* or band_stop_max is unset or band_stop_min >= band_stop_max, or it is 'lp'
\* and band_stop_min is unset; in every other case the motion filter options
\* only produce warnings and the return code is 1 only for another check.
C11_MotionFilterErrorCases ==
    (Validated /\ args.fd_thresh > 0) =>
        LET type == args.motion_filter_type
            min == args.band_stop_min
            max == args.band_stop_max
            expected ==
                \/ /\ type = Some("notch")
                   /\ \/ min = None
                      \/ max = None
                      \/ min[1] >= max[1]
                \/ type = Some("lp") /\ min = None
        IN  /\ (errors \cap MotionFilterErrors # {}) <=> expected
            /\ expected => ret = Some(1)
            /\ (~expected /\ ret = Some(1)) => errors \ MotionFilterErrors # {}

\* C12: _validate_parameters reports a band-pass error (return code 1) exactly
\* when band-pass filtering is enabled, both lower_bpf and upper_bpf are
\* positive and lower_bpf >= upper_bpf; with exactly one of the two <= 0 the
\* configuration is accepted and bandpass_filter stays as it was given.
C12_BandpassError ==
    Validated =>
        LET lower == args.lower_bpf
            upper == args.upper_bpf
            expected == args.bandpass_filter /\ lower > 0 /\ upper > 0 /\ lower >= upper
        IN  /\ (ErrBandpass \in errors) <=> expected
            /\ expected => ret = Some(1)
            /\ ((lower <= 0) # (upper <= 0)) =>
                /\ ErrBandpass \notin errors
                /\ opts.bandpass_filter = args.bandpass_filter
                /\ ret = Some(1) => errors \ {ErrBandpass} # {}

\* A one-sided filter (no low-pass edge) with band-pass filtering enabled is
\* accepted.
C12_Witness ==
    /\ Validated
    /\ args.bandpass_filter
    /\ args.lower_bpf = 10 /\ args.upper_bpf = 0
    /\ opts.bandpass_filter
    /\ ret = Some(0)

\* C13: if lower_bpf <= 0 and upper_bpf <= 0, bandpass_filter is False after
\* _validate_parameters whatever it was, no band-pass error is reported and the
\* return code is 1 only for an error of another check.
C13_BandpassDisabled ==
    (Validated /\ args.lower_bpf <= 0 /\ args.upper_bpf <= 0) =>
        /\ opts.bandpass_filter = FALSE
        /\ ErrBandpass \notin errors
        /\ ret = Some(1) => errors \ {ErrBandpass} # {}
        /\ errors = {} => ret = Some(0)

\* Band-pass filtering was asked for with both edges off: the flag is cleared
\* and the call returns 0.
C13_Witness ==
    /\ Validated
    /\ args.bandpass_filter
    /\ args.lower_bpf = -1 /\ args.upper_bpf = 0
    /\ opts.bandpass_filter = FALSE
    /\ ret = Some(0)

\* C14: for input_type 'dcan' or 'hcp', cifti and process_surfaces are both
\* True after _validate_parameters whatever they were, and the surfaces check
\* reports no error.
C14_DcanHcpEnableCiftiAndSurfaces ==
    (Validated /\ args.input_type \in {"dcan", "hcp"}) =>
        /\ opts.cifti
        /\ opts.process_surfaces
        /\ ErrSurfaces \notin errors
        /\ ret = Some(1) => errors \ {ErrSurfaces} # {}

\* An HCP input given with cifti and without surfaces: both are enabled.
C14_Witness ==
    /\ Validated
    /\ args.input_type = "hcp"
    /\ args.cifti /\ ~args.process_surfaces
    /\ opts.cifti /\ opts.process_surfaces
    /\ ret = Some(0)

\* C15: _validate_parameters returns 1 when process_surfaces is True and cifti
\* is False for input_type fmriprep or nibabies, so whenever it returns 0 the
\* returned options satisfy process_surfaces => cifti.
C15_SurfacesNeedCifti ==
    Validated =>
        /\ (/\ args.input_type \in {"fmriprep", "nibabies"}
            /\ args.process_surfaces /\ ~args.cifti)
                => (ret = Some(1) /\ ErrSurfaces \in errors)
        /\ ret = Some(0) => (opts.process_surfaces => opts.cifti)

\* Surfaces without cifti on an fMRIPrep input: the only error of the call.
C15_Witness ==
    /\ Validated
    /\ args.input_type = "fmriprep"
    /\ args.process_surfaces /\ ~args.cifti
    /\ errors = {ErrSurfaces}
    /\ ret = Some(1)

\* C16: _validate_parameters returns 1 whenever output_dir and fmri_dir resolve
\* to the same absolute path, whatever the other options; a reported error is
\* never followed by a return code of 0, and the return code is 0 or 1.
C16_SameDirReturnsOne ==
    Validated =>
        /\ Resolve(args.output_dir) = Resolve(args.fmri_dir) =>
                (ret = Some(1) /\ ErrSameDir \in errors)
        /\ errors # {} <=> ret = Some(1)
        /\ ret \in {Some(0), Some(1)}

\* The output directory is the input directory, given as an absolute path, and
\* every other option is valid.
C16_Witness ==
    /\ Validated
    /\ args.output_dir # args.fmri_dir
    /\ Resolve(args.output_dir) = Resolve(args.fmri_dir)
    /\ errors = {ErrSameDir}
    /\ ret = Some(1)


----------------------------------------------------------------------------
(* write_dataset_description and get_preproc_pipeline_info                 *)
(* (xcp_d/utils/bids.py).  A dataset_description.json is the record of its *)
(* keys ("" or None for a key the file does not have); a version string is *)
(* the tuple of its public part and, when it has one, its local part:      *)
(* "0.4.0+dirty" is <<"0.4.0", "dirty">>.                                  *)

\* The values __version__ can have in the installation that runs.
Versions == {<<"0.4.0">>, <<"0.4.0", "dirty">>, <<"0.0.1">>}

\* Version(v).public
Public(v) == <<Head(v)>>

Description(type, generated_by) ==
    [DatasetType |-> type, Name |-> "", GeneratedBy |-> generated_by,
     HowToAcknowledge |-> ""]

GeneratedByEntry(name, version) == [Name |-> name, Version |-> version]

\* What write_dataset_description writes from the description desc.
Updated(desc, version) ==
    [desc EXCEPT
        !.Name = "XCP-D: A Robust Postprocessing Pipeline of fMRI data",
        !.GeneratedBy = Some(<<GeneratedByEntry("xcp_d", version)>>
                             \o (IF @ = None THEN <<>> ELSE @[1])),
        !.HowToAcknowledge = "Include the generated boilerplate in the methods section."]

FmriprepDescription ==
    Description("derivative", Some(<<GeneratedByEntry("fMRIPrep", <<"20.2.0">>)>>))

\* The description files a directory can hold before the first call: one of
\* a preprocessing pipeline, one without GeneratedBy, one of a raw dataset,
\* one without DatasetType and one that xcp_d wrote.
Descriptions ==
    {FmriprepDescription, Description("derivative", None),
     Description("raw", None), Description("", None)}
        \cup {Updated(FmriprepDescription, v) : v \in Versions}

Filesystems == [Dirs -> {None} \cup {Some(d) : d \in Descriptions}]

InitDescription ==
    /\ pc = "start"
    /\ layout = {}
    /\ args = None
    /\ subj_data = None
    /\ err = NoErr
    /\ warned = {}
    /\ errors = {}
    /\ ret = None
    /\ opts = None
    /\ environ = None
    /\ fs \in Filesystems
    /\ calls = <<>>
    /\ locals = None

Raised(files, type, msg) ==
    [fs |-> files, err |-> [type |-> type, msg |-> msg], warned |-> {}]

\* dset_desc["GeneratedBy"][0]["Version"]: the exception it raises, if any.
VersionError(desc) ==
    IF desc.GeneratedBy = None THEN "KeyError"
    ELSE IF desc.GeneratedBy[1] = <<>> THEN "IndexError"
    ELSE ""

FirstVersion(desc) == desc.GeneratedBy[1][1].Version

\* write_dataset_description overwriting a description that is there.
write_dataset_description_overwriting(files, fmri_dir, xcpd_dir, version) ==
    IF files[fmri_dir] # None /\ files[fmri_dir][1].DatasetType = ""
    THEN Raised(files, "KeyError", "DatasetType")
    ELSE IF files[fmri_dir] # None /\ files[fmri_dir][1].DatasetType # "derivative"
    THEN Raised(files, "AssertionError", "")
    ELSE LET dset_desc == Updated(IF files[fmri_dir] = None THEN Description("", None)
                                  ELSE files[fmri_dir][1], version)
         IN  [fs |-> [files EXCEPT ![xcpd_dir] = Some(dset_desc)],
              err |-> NoErr, warned |-> {}]

\* The outcome of write_dataset_description: the files it leaves, what it
\* raises and what it logs.
write_dataset_description(files, fmri_dir, xcpd_dir, version) ==
    IF files[fmri_dir] # None /\ files[fmri_dir][1].DatasetType = ""
    THEN Raised(files, "KeyError", "DatasetType")
    ELSE IF files[fmri_dir] # None /\ files[fmri_dir][1].DatasetType # "derivative"
    THEN Raised(files, "AssertionError", "")
    ELSE LET dset_desc == Updated(IF files[fmri_dir] = None THEN Description("", None)
                                  ELSE files[fmri_dir][1], version)
         IN  IF files[xcpd_dir] # None
             THEN LET old_dset_desc == files[xcpd_dir][1]
                  IN  IF VersionError(old_dset_desc) # ""
                      THEN Raised(files, VersionError(old_dset_desc), "GeneratedBy")
                      ELSE [fs |-> files, err |-> NoErr,
                            warned |-> IF Public(version) # Public(FirstVersion(old_dset_desc))
                                       THEN {"Previous output generated by version"}
                                       ELSE {}]
             ELSE [fs |-> [files EXCEPT ![xcpd_dir] = Some(dset_desc)],
                   err |-> NoErr, warned |-> {}]

References(input_type) ==
    CASE input_type = "fmriprep" -> "[@esteban2019fmriprep;@esteban2020analysis, RRID:SCR_016216]"
      [] input_type = "dcan" -> "[@Feczko_Earl_perrone_Fair_2021;@feczko2021adolescent]"
      [] input_type = "hcp" -> "[@hcppipelines]"
      [] input_type = "nibabies" -> "[@goncalves_mathias_2022_7072346]"
      [] OTHER -> ""

\* The outcome of get_preproc_pipeline_info: info_dict or the exception.
get_preproc_pipeline_info(files, input_type, fmri_dir) ==
    IF files[fmri_dir] # None /\ VersionError(files[fmri_dir][1]) # ""
    THEN [ret |-> None,
          err |-> [type |-> VersionError(files[fmri_dir][1]), msg |-> "GeneratedBy"]]
    ELSE IF References(input_type) = ""
    THEN [ret |-> None,
          err |-> [type |-> "ValueError", msg |-> "Unsupported input_type"]]
    ELSE [ret |-> Some([version |-> IF files[fmri_dir] # None
                                    THEN FirstVersion(files[fmri_dir][1])
                                    ELSE <<"unknown">>,
                        references |-> References(input_type)]),
          err |-> NoErr]

Idle == pc \in {"start", "write_dataset_description", "get_preproc_pipeline_info"}

WriteDatasetDescription ==
    /\ Idle
    /\ \E fmri_dir \in Dirs, xcpd_dir \in Dirs, version \in Versions :
         LET out == write_dataset_description(fs, fmri_dir, xcpd_dir, version)
         IN  /\ args' = [fmri_dir |-> fmri_dir, xcpd_dir |-> xcpd_dir,
                         version |-> version]
             /\ fs' = out.fs
             /\ err' = out.err
             /\ warned' = out.warned
    /\ pc' = "write_dataset_description"
    /\ ret' = None
    /\ UNCHANGED <<layout, subj_data, errors, opts, environ, calls, locals>>

GetPreprocPipelineInfo ==
    /\ Idle
    /\ \E input_type \in {"fmriprep", "dcan", "hcp", "nibabies", "fail"}, fmri_dir \in Dirs :
         LET out == get_preproc_pipeline_info(fs, input_type, fmri_dir)
         IN  /\ args' = [input_type |-> input_type, fmri_dir |-> fmri_dir]
             /\ ret' = out.ret
             /\ err' = out.err
    /\ pc' = "get_preproc_pipeline_info"
    /\ warned' = {}
    /\ UNCHANGED <<layout, subj_data, errors, opts, environ, fs, calls, locals>>

NextDescription == WriteDatasetDescription \/ GetPreprocPipelineInfo

SpecDescription == InitDescription /\ [][NextDescription]_vars

(* Claims about the dataset description.                                   *)

\* C17: when fmri_dir has no dataset_description.json, write_dataset_description
\* raises FileNotFoundError ('Dataset description DNE') and writes no
\* dataset_description.json, and get_preproc_pipeline_info raises
\* FileNotFoundError with the same message.
C17_MissingDescriptionRaises ==
    [][/\ (pc' = "write_dataset_description" /\ fs[args'.fmri_dir] = None) =>
            /\ err' = [type |-> "FileNotFoundError", msg |-> "Dataset description DNE"]
            /\ fs' = fs
       /\ (pc' = "get_preproc_pipeline_info" /\ fs[args'.fmri_dir] = None) =>
            err' = [type |-> "FileNotFoundError", msg |-> "Dataset description DNE"]
      ]_vars

\* The call of write_dataset_description read a description with a first
\* GeneratedBy entry from the output directory.
ReadOld(files, a) ==
    files[a.xcpd_dir] # None /\ VersionError(files[a.xcpd_dir][1]) = ""

ValidInput(files, a) ==
    files[a.fmri_dir] = None \/ files[a.fmri_dir][1].DatasetType = "derivative"

----------------------------------------------------------------------------
(* main (xcp_d/cli/run.py), one action per stretch of code between two     *)
(* calls whose outcome main does not decide: the build subprocess,         *)
(* check_deps, xcpd_wf.run and generate_reports.  calls lists every call   *)
(* main made or tried to make; locals.exc is the exception in flight.      *)

MaxCrashfiles == 1

\* The sorted subject lists collect_participants can hand to main.
SubjectLists ==
    {Sorted(S, LabelKey) : S \in (SUBSET Subjects) \ {{}}}

\* retval as build_workflow leaves it.  fmri_dir is None until line 863 sets
\* it, with output_dir and work_dir; workflow tells whether a workflow is in.
Retval(return_code, fmri_dir, workflow, subject_list) ==
    [return_code |-> return_code, fmri_dir |-> fmri_dir, workflow |-> workflow,
     subject_list |-> subject_list]

\* The options build_workflow is run with: valid, or with the output
\* directory on the input directory.
BuildOptions ==
    {[fmri_dir |-> Path(FALSE, <<"dset">>), output_dir |-> d,
      work_dir |-> Path(FALSE, <<"work">>), fs_license_file |-> None,
      analysis_level |-> "participant", lower_bpf |-> 10, upper_bpf |-> 80,
      bandpass_filter |-> TRUE, fd_thresh |-> 3, min_time |-> 100,
      motion_filter_type |-> None, band_stop_min |-> None, band_stop_max |-> None,
      motion_filter_order |-> Some(4), input_type |-> t, cifti |-> TRUE,
      process_surfaces |-> FALSE] :
        d \in {Path(FALSE, <<"out">>), Path(TRUE, <<"cwd", "dset">>)},
        t \in {"fmriprep", "nibabies", "dcan", "hcp"}}

\* What a run of build_workflow depends on: the options, whether the input
\* directory (converted, for dcan and hcp) holds a dataset_description.json,
\* whether BIDSLayout and init_xcpd_wf return, and the subjects of the layout.
BuildInputs ==
    [opts : BuildOptions, clean_workdir : BOOLEAN, has_description : BOOLEAN,
     layout_ok : BOOLEAN, all_participants : {{}, {<<"01">>}, Subjects},
     participant_label : {[kind |-> "none", val |-> <<>>],
                          [kind |-> "list", val |-> << <<"02">> >>]},
     wf_ok : BOOLEAN]

ErrNoDescription == "No dataset_description.json file found in input directory."

\* What a run of build_workflow leaves: the exit code of its process, retval,
\* the return code of _validate_parameters, the calls made in order, the
\* directory handed to BIDSLayout and to init_xcpd_wf, the log and opts.
Built(exitcode, retval, v, steps, layout_dir, wf_dir, errs, opts_) ==
    [exitcode |-> exitcode, retval |-> retval, validated |-> v.return_code,
     steps |-> steps, layout_dir |-> layout_dir, wf_dir |-> wf_dir,
     errors |-> errs, warned |-> v.warned, opts |-> opts_]

\* Lines 824-1053.  An exception (of BIDSLayout, collect_participants or
\* init_xcpd_wf) ends the process with exit code 1 and retval as it was.
build_workflow(i) ==
    LET v == _validate_parameters(i.opts)
        converts == v.opts.input_type \in {"dcan", "hcp"}
        converted_fmri_dir ==
            Path(TRUE, v.opts.work_dir.parts
                        \o <<"dset_bids", "derivatives", v.opts.input_type>>)
        o == IF converts THEN [v.opts EXCEPT !.fmri_dir = converted_fmri_dir]
             ELSE v.opts
        errs == v.errors \cup (IF i.has_description THEN {} ELSE {ErrNoDescription})
        before == (IF i.clean_workdir THEN <<"clean_directory">> ELSE <<>>)
                    \o (IF converts THEN <<"makedirs", "convert_to_bids">> ELSE <<>>)
                    \o <<"BIDSLayout">>
        subjects == collect_participants(i.all_participants, i.participant_label, FALSE)
        set == Retval(1, Some(v.opts.fmri_dir), FALSE, None)
    IN  IF v.return_code = 1
        THEN Built(0, Retval(1, None, FALSE, None), v, <<>>, None, None, v.errors, v.opts)
        ELSE IF ~i.layout_ok
        THEN Built(1, set, v, before, Some(o.fmri_dir), None, errs, o)
        ELSE IF subjects.err # NoErr
        THEN Built(1, set, v, before \o <<"collect_participants">>,
                   Some(o.fmri_dir), None, errs, o)
        ELSE IF ~i.wf_ok
        THEN Built(1, [set EXCEPT !.subject_list = subjects.ret], v,
                   before \o <<"collect_participants", "mkdir", "init_xcpd_wf">>,
                   Some(o.fmri_dir), Some(o.fmri_dir), errs, o)
        ELSE Built(0, Retval(0, Some(v.opts.fmri_dir), TRUE, subjects.ret), v,
                   before \o <<"collect_participants", "mkdir", "init_xcpd_wf">>,
                   Some(o.fmri_dir), Some(o.fmri_dir), errs, o)

\* What the build subprocess can leave.
BuildOutcomes == {build_workflow(i) : i \in BuildInputs}

SentryCalls ==
    {"sentry_setup", "start_ping", "process_crashfile",
     "sentry_sdk.capture_exception", "sentry_sdk.capture_message"}

\* n calls of the same function.
Repeat(name, n) == [i \in 1..n |-> name]

\* Lines 518-536.
MainParse ==
    /\ pc = "start"
    /\ \E notrack \in BOOLEAN :
         /\ locals' = [notrack |-> notrack,
                       sentry_sdk |-> IF notrack THEN None ELSE Some("sentry_sdk"),
                       build |-> None, retcode |-> 0, fmri_dir |-> None,
                       subject_list |-> None, outcome |-> "", errno |-> 0,
                       exc |-> "", reports |-> <<>>, failed_reports |-> 0]
         /\ calls' = IF notrack THEN <<>> ELSE <<"sentry_setup">>
         /\ args' = [notrack |-> notrack]
    /\ pc' = "main:build"
    /\ UNCHANGED <<layout, subj_data, err, warned, errors, ret, opts, environ, fs>>

\* main going on to check_deps whatever the build left.
MainBuildNoExit ==
    /\ pc = "main:build"
    /\ \E out \in BuildOutcomes :
         /\ out.retval.fmri_dir # None
         /\ calls' = Append(calls, "build_workflow")
         /\ locals' = [locals EXCEPT !.build = Some(out),
                         !.fmri_dir = out.retval.fmri_dir,
                         !.subject_list = out.retval.subject_list]
         /\ errors' = out.errors
         /\ warned' = out.warned
         /\ opts' = out.opts
    /\ pc' = "main:check_deps"
    /\ UNCHANGED <<layout, args, subj_data, err, ret, environ, fs>>

\* Lines 538-557.  Path(None) raises TypeError.
MainBuild ==
    /\ pc = "main:build"
    /\ \E out \in BuildOutcomes :
         LET retcode == IF out.exitcode # 0 THEN out.exitcode
                        ELSE out.retval.return_code
             final == IF retcode # 0 THEN retcode
                      ELSE IF out.retval.workflow THEN 0 ELSE 1
         IN  /\ calls' = Append(calls, "build_workflow")
             /\ errors' = out.errors
             /\ warned' = out.warned
             /\ opts' = out.opts
             /\ IF out.retval.fmri_dir = None
                THEN /\ pc' = "main:raised"
                     /\ err' = [type |-> "TypeError", msg |-> "Path(None)"]
                     /\ ret' = ret
                     /\ locals' = [locals EXCEPT !.build = Some(out),
                                     !.retcode = retcode]
                ELSE /\ err' = err
                     /\ locals' = [locals EXCEPT !.build = Some(out),
                                     !.retcode = final,
                                     !.fmri_dir = out.retval.fmri_dir,
                                     !.subject_list = out.retval.subject_list]
                     /\ IF final # 0
                        THEN pc' = "main:exit" /\ ret' = Some(final)
                        ELSE pc' = "main:check_deps" /\ ret' = ret
    /\ UNCHANGED <<layout, args, subj_data, environ, fs>>

\* Lines 559-574.
MainCheckDeps ==
    /\ pc = "main:check_deps"
    /\ \E missing \in BOOLEAN :
         IF missing
         THEN /\ calls' = Append(calls, "check_deps")
              /\ pc' = "main:exit"
              /\ ret' = Some(2)
         ELSE /\ calls' = calls \o <<"check_deps">>
                    \o (IF locals.notrack THEN <<>> ELSE <<"start_ping">>)
              /\ pc' = "main:run"
              /\ ret' = ret
    /\ UNCHANGED <<layout, args, subj_data, err, warned, errors, opts, environ,
                   fs, locals>>

\* Lines 580-595: the calls of the except clause and the exception that
\* leaves it.  sentry_sdk.capture_exception on sentry_sdk = None raises
\* AttributeError in place of the re-raised workflow exception.
Except(notrack, sentry_sdk, unclean, crashfiles) ==
    [calls |-> (IF notrack THEN <<>> ELSE Repeat("process_crashfile", crashfiles))
               \o (IF unclean THEN <<>> ELSE <<"sentry_sdk.capture_exception">>),
     exc |-> IF ~unclean /\ sentry_sdk = None THEN "AttributeError" ELSE "Exception"]

\* Lines 576-601.
MainRun ==
    /\ pc = "main:run"
    /\ \E outcome \in {"returned", "unclean", "raised"}, crashfiles \in 0..MaxCrashfiles :
         IF outcome = "returned"
         THEN /\ crashfiles = 0
              /\ calls' = calls \o <<"xcpd_wf.run">>
                    \o (IF locals.notrack THEN <<>> ELSE <<"sentry_sdk.capture_message">>)
              /\ locals' = [locals EXCEPT !.errno = 0, !.outcome = outcome]
         ELSE LET e == Except(locals.notrack, locals.sentry_sdk,
                              outcome = "unclean", crashfiles)
              IN  /\ calls' = calls \o <<"xcpd_wf.run">> \o e.calls
                  /\ locals' = [locals EXCEPT !.errno = 1, !.exc = e.exc,
                                  !.outcome = outcome]
    /\ pc' = "main:finally"
    /\ UNCHANGED <<layout, args, subj_data, err, warned, errors, ret, opts, environ, fs>>

\* The finally clause with an exit status that leaves the reports out.
MainReportsErrnoOnly ==
    /\ pc = "main:finally"
    /\ \E md_exists \in BOOLEAN, failed_reports \in 0..Len(locals.subject_list[1]) :
         /\ warned' = warned \cup (IF md_exists THEN {}
                      ELSE {"xcp_d could not find the markdown version of the citation boilerplate"})
         /\ calls' = calls \o <<"generate_reports">>
               \o (IF failed_reports > 0 /\ ~locals.notrack
                   THEN <<"sentry_sdk.capture_message">> ELSE <<>>)
         /\ locals' = [locals EXCEPT !.failed_reports = failed_reports, !.exc = "",
                         !.reports = Append(@, locals.fmri_dir)]
         /\ ret' = Some(locals.errno)
    /\ pc' = "main:exit"
    /\ UNCHANGED <<layout, args, subj_data, err, errors, opts, environ, fs>>

\* Lines 603-678: the finally clause.  generate_reports is given main's
\* fmri_dir (locals.reports lists the directory of each call); sys.exit
\* replaces the exception in flight.
MainReports ==
    /\ pc = "main:finally"
    /\ \E md_exists \in BOOLEAN, failed_reports \in 0..Len(locals.subject_list[1]) :
         /\ warned' = warned \cup (IF md_exists THEN {}
                      ELSE {"xcp_d could not find the markdown version of the citation boilerplate"})
         /\ calls' = calls \o <<"generate_reports">>
               \o (IF failed_reports > 0 /\ ~locals.notrack
                   THEN <<"sentry_sdk.capture_message">> ELSE <<>>)
         /\ locals' = [locals EXCEPT !.failed_reports = failed_reports, !.exc = "",
                         !.reports = Append(@, locals.fmri_dir)]
         /\ ret' = Some(IF locals.errno + failed_reports > 0 THEN 1 ELSE 0)
    /\ pc' = "main:exit"
    /\ UNCHANGED <<layout, args, subj_data, err, errors, opts, environ, fs>>

NextMain == MainParse \/ MainBuild \/ MainCheckDeps \/ MainRun \/ MainReports

SpecMain == Init /\ [][NextMain]_vars

(* Claims about main.                                                      *)

\* C19: with --notrack, main attempts no sentry call (sentry_setup, start_ping,
\* process_crashfile, capture_exception, capture_message) on any path.
C19_NotrackMakesNoSentryCall ==
    (locals # None /\ locals.notrack) =>
        \A i \in DOMAIN calls : calls[i] \notin SentryCalls

\* The number of calls of name that main made.
Count(name) == Cardinality({i \in DOMAIN calls : calls[i] = name})

\* main has called xcpd_wf.run.
Ran == Count("xcpd_wf.run") > 0

\* The build subprocess has ended.
BuildDone == locals # None /\ locals.build # None

\* C21: once main has started running the workflow, generate_reports is
\* called exactly once whether xcpd_wf.run raised or returned, and main ends
\* through sys.exit: with status 0 if and only if the run raised nothing and
\* generate_reports reported no failed subject, with status 1 otherwise; no
\* exception is left in flight.
C21_ReportsOnceAndExitStatus ==
    Ran =>
        /\ pc \in {"main:finally", "main:exit"}
        /\ Count("xcpd_wf.run") = 1
        /\ pc = "main:finally" => Count("generate_reports") = 0
        /\ pc = "main:exit" =>
            /\ Count("generate_reports") = 1
            /\ calls[Len(calls)] \in {"generate_reports", "sentry_sdk.capture_message"}
            /\ locals.exc = ""
            /\ err = NoErr
            /\ ret \in {Some(0), Some(1)}
            /\ ret = Some(0) <=>
                (locals.outcome = "returned" /\ locals.failed_reports = 0)

\* The workflow raised, every report was generated, main exits with 1.
C21_Witness ==
    /\ pc = "main:exit"
    /\ Ran
    /\ locals.outcome = "raised"
    /\ locals.failed_reports = 0
    /\ Count("generate_reports") = 1
    /\ ret = Some(1)

\* C22: main runs the workflow only if the build subprocess exited with code
\* 0, reported return_code 0 and returned a workflow; when check_deps reports
\* missing commands main exits with status 2, before the workflow is run and
\* before any report is generated.
C22_RunsOnlyBuiltWorkflow ==
    /\ (pc \in {"main:check_deps", "main:run", "main:finally"} \/ Ran) =>
        /\ BuildDone
        /\ locals.build[1].exitcode = 0
        /\ locals.build[1].retval.return_code = 0
        /\ locals.build[1].retval.workflow
    /\ ret = Some(2) =>
        /\ pc = "main:exit"
        /\ calls[Len(calls)] = "check_deps"
        /\ ~Ran
        /\ Count("generate_reports") = 0

\* check_deps found a command missing after a build that succeeded.
C22_Witness ==
    /\ pc = "main:exit"
    /\ ret = Some(2)
    /\ BuildDone
    /\ locals.build[1].retval.workflow
    /\ ~Ran

\* C23: when _validate_parameters returns 1, build_workflow returns before it
\* cleans the working directory, converts the input or creates a directory,
\* and main ends through sys.exit with status 1, not through an exception.
C23_InvalidOptionsExitOne ==
    (BuildDone /\ locals.build[1].validated = 1) =>
        /\ locals.build[1].steps = <<>>
        /\ pc = "main:exit"
        /\ ret = Some(1)
        /\ err = NoErr

\* C24: when the input directory (converted, for dcan and hcp) has no
\* dataset_description.json, build_workflow ends with return_code 1 and main
\* does not run the workflow; return_code is 0 at the end of build_workflow
\* only if the build logged no error.
C24_MissingDescriptionStopsBuild ==
    BuildDone =>
        /\ ErrNoDescription \in locals.build[1].errors =>
            /\ locals.build[1].retval.return_code = 1
            /\ pc \notin {"main:check_deps", "main:run", "main:finally"}
            /\ ~Ran
        /\ locals.build[1].retval.return_code = 0 => locals.build[1].errors = {}

\* C27: the fmri_dir that build_workflow leaves in retval, and that main hands
\* to generate_reports, is the directory build_workflow gave to BIDSLayout
\* and to init_xcpd_wf, for every input_type.
C27_ReportedDirIsLayoutDir ==
    (BuildDone /\ locals.build[1].layout_dir # None) =>
        /\ locals.build[1].retval.fmri_dir = locals.build[1].layout_dir
        /\ locals.build[1].wf_dir \in {None, locals.build[1].layout_dir}
        /\ \A i \in DOMAIN locals.reports :
            locals.reports[i] = locals.build[1].layout_dir

----------------------------------------------------------------------------
(* init_fcon_ts_wf (xcp_abcd/workflow/connectivity.py).  The workflow is   *)
(* the record of its nodes, by name, and of its connections; a base name   *)
(* is the tuple of its entity values, so that `x in file_base` is a search *)
(* for x among them.                                                       *)

\* The atlas each get_atlas_nifti call loads, by the prefix of its variables.
Atlases ==
    [sc207 |-> "schaefer200x7", sc407 |-> "schaefer400x7",
     gs360 |-> "glasser360", gd333 |-> "gordon333"]

\* The name of each apply-transform node and of each nifticonnect node.
TransformNodes ==
    [sc207 |-> "apply_tranform_sc27", sc407 |-> "apply_tranform_sc47",
     gs360 |-> "apply_tranform_gs36", gd333 |-> "apply_tranform_gd33"]

ConnectNodes ==
    [sc27 |-> "sc27_connect", sc47 |-> "sc47_connect",
     gd33 |-> "gd33_connect", gs36 |-> "gs36_connect"]

FconBolds ==
    {Bold(sub, task, space, "", "", "nii.gz") :
        sub \in {"01", "02"}, task \in {"rest", "nback"},
        space \in {NLin2009c, NLin6, "T1w", ""}}

\* The template argument: None, the empty string or the name of a space.
FconTemplates == {None, Some(""), Some(NLin2009c), Some(NLin6)}

\* os.path.basename(str(bold_file))
Basename(f) ==
    SelectSeq(<<f.sub, f.task, f.space, f.res, f.den, f.desc, f.suffix, f.extension>>,
              LAMBDA x : x # "")

\* x in file_base, for a string x: the empty string is in every string.
In(x, file_base) == x = "" \/ x \in Range(file_base)

Edge(src, out, dst, in) == [src |-> src, out |-> out, dst |-> dst, in |-> in]

Node(interface, input_image, transforms, mem_gb) ==
    [interface |-> interface, input_image |-> input_image,
     transforms |-> transforms, mem_gb |-> mem_gb]

\* Lines 117-123: the transform list, None where the code leaves transformfile
\* unassigned.  str(inputnode.inputs.mni_to_t1w) is taken before the input is
\* set.
Transformfile(template, file_base, t1w_to_native) ==
    IF In(template[1], file_base) THEN Some(<<"identity">>)
    ELSE IF In("T1w", file_base) THEN Some(<<"<undefined>">>)
    ELSE IF template[1] = "" \/ In("T1w", file_base)
    THEN Some(<<"<undefined>", t1w_to_native>>)
    ELSE None

\* Lines 154-186: workflow.connect.
Connections ==
    {Edge("inputnode", "ref_file", TransformNodes[x], "reference_image") :
        x \in DOMAIN TransformNodes}
    \cup {Edge("inputnode", "clean_bold", ConnectNodes[x], "regressed_file") :
        x \in DOMAIN ConnectNodes}
    \cup {Edge(TransformNodes.sc207, "output_image", ConnectNodes.sc27, "atlas"),
          Edge(TransformNodes.sc407, "output_image", ConnectNodes.sc47, "atlas"),
          Edge(TransformNodes.gd333, "output_image", ConnectNodes.gd33, "atlas"),
          Edge(TransformNodes.gs360, "output_image", ConnectNodes.gs36, "atlas")}
    \cup {Edge(ConnectNodes.sc27, "time_series_tsv", "outputnode", <<"sc207", "ts">>),
          Edge(ConnectNodes.sc27, "fcon_matrix_tsv", "outputnode", <<"sc207", "fc">>),
          Edge(ConnectNodes.sc47, "time_series_tsv", "outputnode", <<"sc407", "ts">>),
          Edge(ConnectNodes.sc47, "fcon_matrix_tsv", "outputnode", <<"sc407", "fc">>),
          Edge(ConnectNodes.gs36, "time_series_tsv", "outputnode", <<"gs360", "ts">>),
          Edge(ConnectNodes.gs36, "fcon_matrix_tsv", "outputnode", <<"gs360", "fc">>),
          Edge(ConnectNodes.gs36, "time_series_tsv", "outputnode", <<"gd333", "ts">>),
          Edge(ConnectNodes.gs36, "fcon_matrix_tsv", "outputnode", <<"gd333", "fc">>)}

\* The outcome of init_fcon_ts_wf: the workflow or the exception.
init_fcon_ts_wf(mem_gb, t1w_to_native, template, bold_file) ==
    IF template = None
    THEN [ret |-> None,
          err |-> [type |-> "TypeError", msg |-> "'in <string>' requires string as left operand"]]
    ELSE LET transformfile == Transformfile(template, Basename(bold_file), t1w_to_native)
         IN  IF transformfile = None
             THEN [ret |-> None,
                   err |-> [type |-> "UnboundLocalError", msg |-> "transformfile"]]
             ELSE [ret |-> Some(
                    [nodes |->
                        [n \in {"inputnode", "outputnode"} |->
                            Node("IdentityInterface", "", <<>>, 0)]
                        @@ [n \in Range(TransformNodes) |->
                            LET x == CHOOSE x \in DOMAIN TransformNodes :
                                        TransformNodes[x] = n
                            IN  Node("ApplyTransformsx", Atlases[x],
                                     transformfile[1], mem_gb)]
                        @@ [n \in Range(ConnectNodes) |->
                            Node("nifticonnect", "", <<>>, mem_gb)],
                     edges |-> Connections]),
                   err |-> NoErr]

InitFconTsWf ==
    /\ pc = "start"
    /\ \E mem_gb \in {1, 4}, template \in FconTemplates, bold_file \in FconBolds :
         LET out == init_fcon_ts_wf(mem_gb, AnatToNative, template, bold_file)
         IN  /\ args' = [mem_gb |-> mem_gb, t1w_to_native |-> AnatToNative,
                         template |-> template, bold_file |-> bold_file]
             /\ ret' = out.ret
             /\ err' = out.err
    /\ pc' = "init_fcon_ts_wf"
    /\ UNCHANGED <<layout, subj_data, warned, errors, opts, environ, fs, calls, locals>>

NextFcon == InitFconTsWf

SpecFcon == Init /\ [][NextFcon]_vars

(* Claims about init_fcon_ts_wf.                                           *)

\* C20: in the workflow init_fcon_ts_wf returns, for X in sc207, sc407, gs360
\* and gd333 the output fields X_ts and X_fc are connected from a
\* connectivity node whose atlas input comes from the transform node of atlas
\* X, and every connectivity node feeds the output node.
C20_OutputsFromOwnAtlas ==
    (pc = "init_fcon_ts_wf" /\ ret # None) =>
        LET wf == ret[1]
        IN  /\ \A x \in DOMAIN Atlases, kind \in {"ts", "fc"} :
                \E e \in wf.edges :
                    /\ e.dst = "outputnode"
                    /\ e.in = <<x, kind>>
                    /\ \E a \in wf.edges :
                        /\ a.dst = e.src
                        /\ a.in = "atlas"
                        /\ wf.nodes[a.src].input_image = Atlases[x]
            /\ \A n \in Range(ConnectNodes) :
                \E e \in wf.edges : e.src = n /\ e.dst = "outputnode"

\* C26: for every BOLD file name and template value, init_fcon_ts_wf has a
\* transform for the atlases when it builds the transform nodes: 'identity'
\* when the template name is in the BOLD base name, the MNI-to-T1w transform
\* when the BOLD file is in T1w space, and the chain of the MNI-to-T1w and the
\* T1w-to-native transform when neither the template name nor 'T1w' is in
\* the base name.
C26_TransformDefined ==
    pc = "init_fcon_ts_wf" =>
        /\ ret # None
        /\ LET file_base == Basename(args.bold_file)
               named == args.template # None /\ In(args.template[1], file_base)
           IN  \A n \in Range(TransformNodes) :
                 LET transforms == ret[1].nodes[n].transforms
                 IN  IF named THEN transforms = <<"identity">>
                     ELSE IF In("T1w", file_base)
                     THEN Len(transforms) = 1 /\ transforms # <<"identity">>
                     ELSE /\ Len(transforms) = 2
                          /\ transforms[1] # "identity"
                          /\ transforms[2] = args.t1w_to_native

(* A claim about collect_data with a 'space' filter, under Spec.           *)

\* C25: when bids_filters gives a 'space' for the bold query, collect_data
\* does not search the preferred spaces: it queries with the space given and
\* returns subj_data without raising; the only error collect_data raises for
\* missing data is 'No BOLD data found in allowed spaces'.
C25_SpaceFilterQueried ==
    pc = "collect_data" =>
        /\ ~NoSpaceFilter =>
            /\ err = NoErr
            /\ subj_data # None
            /\ \A i \in DOMAIN subj_data[1].bold :
                 subj_data[1].bold[i].space \in args.bids_filters.bold.space
        /\ err # NoErr => err = [type |-> "ValueError", msg |-> MsgNoBold]

====
